---- MODULE Spec2Model ----
(***************************************************************************)
(* The framed RPC message layer of lumen (common/src/rpc/mod.rs):         *)
(* read_packet / write_packet over an in-order byte stream, the           *)
(* RpcMessage envelope (get_code, Serialize, deserialize) and async_write. *)
(*                                                                         *)
(* Byte buffers are kept run-length encoded (a sequence of runs of one     *)
(* byte value, no two neighbouring runs of the same value, no empty run),  *)
(* so that buffers of 50 KiB .. 200 MiB, the sizes the length policy is    *)
(* about, are ordinary values.  Two buffers are equal byte for byte iff    *)
(* their encodings are equal.                                              *)
(***************************************************************************)
EXTENDS Integers, Sequences, FiniteSets

\* ------------------------------------------------------------------ bounds

\* Calls of write_packet / async_write made on one stream.
MaxWrites == 2
\* Calls of read_packet made on one stream.
MaxReads == 2
\* Longest explicit payload tail of a buffer handed to write_packet.
MaxTail == 5

\* ----------------------------------------------------- byte buffers (RLE)

Empty == <<>>

Run(b, n) == [b |-> b, n |-> n]

\* n copies of byte b (Vec::resize(n, b)).
Rep(b, n) == IF n = 0 THEN Empty ELSE <<Run(b, n)>>

RECURSIVE BLen(_)
\* slice.len()
BLen(s) == IF s = Empty THEN 0 ELSE Head(s).n + BLen(Tail(s))

\* s followed by t (write_all appends to what the stream holds).
BCat(s, t) ==
    IF s = Empty THEN t
    ELSE IF t = Empty THEN s
    ELSE IF s[Len(s)].b = t[1].b
         THEN SubSeq(s, 1, Len(s) - 1)
               \o <<Run(t[1].b, s[Len(s)].n + t[1].n)>> \o Tail(t)
         ELSE s \o t

RECURSIVE BTake(_, _)
\* the first k bytes of s (all of s when it is shorter): &s[..k]
BTake(s, k) ==
    IF k = 0 \/ s = Empty THEN Empty
    ELSE IF Head(s).n >= k THEN <<Run(Head(s).b, k)>>
    ELSE <<Head(s)>> \o BTake(Tail(s), k - Head(s).n)

RECURSIVE BDrop(_, _)
\* s without its first k bytes: &s[k..]
BDrop(s, k) ==
    IF k = 0 \/ s = Empty THEN s
    ELSE IF Head(s).n > k THEN <<Run(Head(s).b, Head(s).n - k)>> \o Tail(s)
    ELSE BDrop(Tail(s), k - Head(s).n)

\* s[i], 0-based as in the source; i < BLen(s).
BAt(s, i) == Head(BDrop(s, i)).b

RECURSIVE Bytes(_)
\* the buffer holding the bytes of the sequence q
Bytes(q) == IF q = <<>> THEN Empty ELSE BCat(Rep(Head(q), 1), Bytes(Tail(q)))

\* ------------------------------------------------------------ u32 / usize

\* The four bytes in little-endian order.
to_le_bytes(n) ==
    <<n % 256, (n \div 256) % 256, (n \div 65536) % 256, (n \div 16777216) % 256>>

\* u32::to_be_bytes of (n as u32): the four low-order bytes of n, so the
\* cast's truncation is the % 256 of the first byte.
to_be_bytes(n) ==
    <<(n \div 16777216) % 256, (n \div 65536) % 256, (n \div 256) % 256, n % 256>>

\* u32::from_be_bytes(..) as usize, kept as two 16-bit halves: the value is
\* hi * 65536 + lo and ranges over all of 0 .. 2^32 - 1.
from_be_bytes(q) == [hi |-> q[1] * 256 + q[2], lo |-> q[3] * 256 + q[4]]

\* a < n and a > n for a two-halves value a and a number n < 2^31
U32Lt(a, n) == a.hi < n \div 65536 \/ (a.hi = n \div 65536 /\ a.lo < n % 65536)
U32Gt(a, n) == a.hi > n \div 65536 \/ (a.hi = n \div 65536 /\ a.lo > n % 65536)

\* the number a two-halves value stands for, for values below 2^31
AsUsize(a) == a.hi * 65536 + a.lo

\* the first four bytes of a buffer of at least four bytes
First4(s) == <<BAt(s, 0), BAt(s, 1), BAt(s, 2), BAt(s, 3)>>

\* ------------------------------------------------- messages and results

Variants ==
    {"Ok", "Fail", "Notify", "Hello", "PullMetadata", "PullMetadataResult",
     "PushMetadata", "PushMetadataResult"}

\* An RpcMessage: its variant and the content of its payload record (a
\* byte/text field; Ok carries the unit value, written Empty).
Msg(v, r) == [variant |-> v, rec |-> r]
NoMsg == Msg("None", Empty)

\* Result<_, Error> values, and the two ways a call can end without one.
\* err is the variant of enum Error, kind the std::io::ErrorKind an IOError
\* wraps, val the Vec<u8> of an Ok(data), msg the RpcMessage of an Ok(res).
Res(t, e, k, v, m) == [tag |-> t, err |-> e, kind |-> k, val |-> v, msg |-> m]
None == Res("None", "", "", Empty, NoMsg)
Panic == Res("Panic", "", "", Empty, NoMsg)
OkUnit == Res("Ok", "", "", Empty, NoMsg)
OkData(d) == Res("Ok", "", "", d, NoMsg)
OkMsg(m) == Res("Ok", "", "", Empty, m)
Err(e) == Res("Err", e, "", Empty, NoMsg)

\* impl From<std::io::Error> for Error
FromIo(k) == Res("Err", "IOError", k, Empty, NoMsg)

\* impl From<TryReserveError> for Error
FromTryReserve == Err("OutOfMemory")

\* ------------------------------------------------------- the size policy

\* The two large ceilings exchanged.
get_code_maxlen_swapped(code) ==
    CASE code = 14 -> 200 * 1024 * 1024
      [] code = 16 -> 50 * 1024 * 1024
      [] OTHER -> 1024 * 50

get_code_maxlen(code) ==
    CASE code = 14 -> 50 * 1024 * 1024
      [] code = 16 -> 200 * 1024 * 1024
      [] OTHER -> 1024 * 50

\* ----------------------------------------------------------- the envelope

\* PullMetadataResult given the code of PushMetadata.
get_code_dup(m) ==
    CASE m.variant = "Ok" -> 10
      [] m.variant = "Fail" -> 11
      [] m.variant = "Notify" -> 12
      [] m.variant = "Hello" -> 13
      [] m.variant = "PullMetadata" -> 14
      [] m.variant = "PullMetadataResult" -> 16
      [] m.variant = "PushMetadata" -> 16
      [] m.variant = "PushMetadataResult" -> 17

get_code(m) ==
    CASE m.variant = "Ok" -> 10
      [] m.variant = "Fail" -> 11
      [] m.variant = "Notify" -> 12
      [] m.variant = "Hello" -> 13
      [] m.variant = "PullMetadata" -> 14
      [] m.variant = "PullMetadataResult" -> 15
      [] m.variant = "PushMetadata" -> 16
      [] m.variant = "PushMetadataResult" -> 17

\* The codec (rpc/ser.rs, rpc/de.rs, rpc/messages.rs) as the specification
\* describes it: the unit value of Ok encodes to no byte at all; a payload
\* record is a length-prefixed byte/text field, the prefix being four bytes
\* ("every real message's minimal encoding occupies at least 4 bytes").
EncodeUnit == Empty

EncodeRecord(r) == BCat(Bytes(to_be_bytes(BLen(r))), r)

\* de::from_slice: the decoded record and the number of bytes it took, or
\* Serde when the prefix is cut short or declares more than what remains.
DecodeRecord(p) ==
    IF BLen(p) < 4 THEN [ok |-> FALSE, rec |-> Empty, used |-> 0]
    ELSE LET n == from_be_bytes(First4(p))
         IN  IF U32Gt(n, BLen(p) - 4)
             THEN [ok |-> FALSE, rec |-> Empty, used |-> 0]
             ELSE [ok |-> TRUE, rec |-> BTake(BDrop(p, 4), AsUsize(n)),
                   used |-> 4 + AsUsize(n)]

\* The two elements of the tuple in the other order: payload, then code.
Serialize_code_last(m) ==
    BCat(IF m.variant = "Ok" THEN EncodeUnit ELSE EncodeRecord(m.rec),
         Rep(get_code(m), 1))

\* impl Serialize for RpcMessage: the code byte as it is, then the payload.
Serialize(m) ==
    BCat(Rep(get_code(m), 1),
         IF m.variant = "Ok" THEN EncodeUnit ELSE EncodeRecord(m.rec))

\* deserialize_check refusing a payload whose decode leaves bytes unread.
deserialize_check_strict(v, payload) ==
    LET d == DecodeRecord(payload)
    IN  IF d.ok /\ d.used = BLen(payload) THEN OkMsg(Msg(v, d.rec))
        ELSE Err("Serde")

\* RpcMessage::deserialize_check for the variant v: trailing bytes are only
\* traced.
deserialize_check(v, payload) ==
    LET d == DecodeRecord(payload)
    IN  IF d.ok THEN OkMsg(Msg(v, d.rec)) ELSE Err("Serde")

\* The dispatch with a catch-all arm that yields Ok.
deserialize_default_ok(payload) ==
    IF BLen(payload) = 0 THEN Panic
    ELSE LET msg_type == BAt(payload, 0)
             rest == BDrop(payload, 1)
         IN  CASE msg_type = 10 -> OkMsg(Msg("Ok", Empty))
               [] msg_type = 11 -> deserialize_check("Fail", rest)
               [] msg_type = 12 -> deserialize_check("Notify", rest)
               [] msg_type = 13 -> deserialize_check("Hello", rest)
               [] msg_type = 14 -> deserialize_check("PullMetadata", rest)
               [] msg_type = 15 -> deserialize_check("PullMetadataResult", rest)
               [] msg_type = 16 -> deserialize_check("PushMetadata", rest)
               [] msg_type = 17 -> deserialize_check("PushMetadataResult", rest)
               [] OTHER -> OkMsg(Msg("Ok", Empty))

\* RpcMessage::deserialize.  payload[0] of an empty slice panics.
deserialize(payload) ==
    IF BLen(payload) = 0 THEN Panic
    ELSE LET msg_type == BAt(payload, 0)
             rest == BDrop(payload, 1)
         IN  CASE msg_type = 10 -> OkMsg(Msg("Ok", Empty))
               [] msg_type = 11 -> deserialize_check("Fail", rest)
               [] msg_type = 12 -> deserialize_check("Notify", rest)
               [] msg_type = 13 -> deserialize_check("Hello", rest)
               [] msg_type = 14 -> deserialize_check("PullMetadata", rest)
               [] msg_type = 15 -> deserialize_check("PullMetadataResult", rest)
               [] msg_type = 16 -> deserialize_check("PushMetadata", rest)
               [] msg_type = 17 -> deserialize_check("PushMetadataResult", rest)
               [] OTHER -> Err("InvalidData")

\* ------------------------------------------------------------- the inputs

Conns == {1, 2}

\* Headers a peer may send: the four length bytes ...
LenInputs ==
    {to_be_bytes(n) : n \in {0, 3, 4, 5, 1024 * 50, 1024 * 50 + 1,
                             50 * 1024 * 1024, 50 * 1024 * 1024 + 1,
                             200 * 1024 * 1024, 200 * 1024 * 1024 + 1}}
      \cup {<<128, 0, 0, 0>>, <<255, 255, 255, 255>>}

\* ... and the code byte.
CodeInputs == {9, 10, 11, 14, 15, 16, 17, 18, 255}

\* What follows the header: all of the declared payload (of sevens, or of
\* zeros), the payload and two bytes more, one byte less, or nothing.  A
\* declared length of 2^31 or more is followed by a few bytes only.
BodyInputs(lb) ==
    LET a == from_be_bytes(lb)
        L == IF a.hi < 32768 THEN AsUsize(a) ELSE 9
    IN  {Rep(7, L), Rep(0, L), BCat(Rep(7, L), Bytes(<<1, 2>>)), Empty}
          \cup (IF L > 0 THEN {Rep(7, L - 1)} ELSE {})

\* The content of a stream a remote peer wrote and then closed: a header
\* and what follows it, or a header cut short.
PeerStreams ==
    UNION {{BCat(Bytes(lb \o <<c>>), body) : body \in BodyInputs(lb)} :
              lb \in LenInputs, c \in CodeInputs}
      \cup {Bytes(<<0, 0>>), Bytes(<<0, 0, 0, 4>>)}

\* The i-th byte of the payload tails: to_be_bytes(1), then sevens.
PatByte(i) == IF i < 4 THEN 0 ELSE IF i = 4 THEN 1 ELSE 7
PatTail(k) == Bytes([i \in 1..k |-> PatByte(i)])

\* Buffers handed to write_packet: the empty one, a code byte followed by a
\* short tail, and a code byte followed by a payload at and just above the
\* 50 KiB ceiling.
Buffers ==
    {Empty}
      \cup {BCat(Rep(c, 1), PatTail(k)) : c \in {10, 255}, k \in {0, 3, 4, MaxTail}}
      \cup {BCat(Rep(10, 1), Rep(7, n)) : n \in {1024 * 50, 1024 * 50 + 1}}

\* Buffers written when two streams are in use: one below the floor, and
\* one of 50 KiB + 2 under the code 0x0e.
PairBuffers ==
    {BCat(Rep(10, 1), PatTail(3)), BCat(Rep(14, 1), Rep(7, 1024 * 50 + 1))}

\* Messages handed to async_write: every variant, with records whose
\* encoding is short, or at or just above a ceiling.
Messages ==
    {Msg("Ok", Empty), Msg("Fail", Empty), Msg("Notify", Rep(7, 1024 * 50 - 4)),
     Msg("Hello", Bytes(<<7, 3>>)), Msg("PullMetadata", Rep(7, 1024 * 50 - 3)),
     Msg("PullMetadataResult", Rep(7, 1024 * 50 - 3)),
     Msg("PushMetadata", Bytes(<<3>>)), Msg("PushMetadataResult", Empty)}

\* Messages handed to the serializer alone: those above, and every payload
\* variant with further records, some of which read as a length prefix.
CodecMessages ==
    Messages
      \cup {Msg(v, r) : v \in Variants \ {"Ok"},
                         r \in {Empty, Bytes(<<0>>), Bytes(<<0, 0, 0, 1>>),
                                PatTail(MaxTail), Rep(255, 300)}}

\* Buffers handed to RpcMessage::deserialize directly: the empty one,
\* every first byte followed by a short tail, and the encoding of a message
\* followed by bytes that do not belong to it.
DecodeInputs ==
    {Empty} \cup {BCat(Rep(c, 1), PatTail(k)) : c \in 0..255, k \in 0..MaxTail}
      \cup {BCat(Serialize(m), Bytes(t)) : m \in Messages, t \in {<<9>>, <<0, 255>>}}

\* -------------------------------------------------------------- the state

VARIABLES
    stream,     \* per stream: the bytes written and not yet read
    closed,     \* per stream: the writing end is closed (reads meet EOF)
    rpos,       \* per stream: the number of bytes read so far
    rpc,        \* read_packet: where the call stands
    rstart,     \* read_packet: rpos when the call began
    head,       \* read_packet: code and buf_len of the header
    data,       \* read_packet: the Vec<u8> data
    allocReq,   \* read_packet: bytes asked of the allocator in this call
    passed,     \* read_packet: the steps this call has passed
    rres,       \* read_packet: the result of the last call
    rlog,       \* the results of the read_packet calls, in order
    wpc,        \* write_packet: where the call stands
    wdata,      \* write_packet: its argument data
    wlen,       \* write_packet: buf_len, the four length bytes it writes
    wmsg,       \* async_write: the message being written (NoMsg: none)
    wres,       \* write_packet / async_write: the result of the last call
    wlog,       \* the completed writes, in order: buffer, length bytes, message
    wcount,     \* the number of write calls made
    dbuf,       \* RpcMessage::deserialize: its argument payload
    dmsg,       \* the message dbuf was serialized from (NoMsg: none)
    dres        \* RpcMessage::deserialize: its result for dbuf

vars ==
    <<stream, closed, rpos, rpc, rstart, head, data, allocReq, passed, rres,
      rlog, wpc, wdata, wlen, wmsg, wres, wlog, wcount, dbuf, dmsg, dres>>

streamVars == <<stream, closed, rpos>>
readVars == <<rpc, rstart, head, data, allocReq, passed, rres, rlog>>
writeVars == <<wpc, wdata, wlen, wmsg, wres, wlog, wcount>>
codecVars == <<dbuf, dmsg, dres>>

NoHead == [code |-> 0, len |-> [hi |-> 0, lo |-> 0]]

\* Every call idle; the first stream holds s (closed iff cl), and b is the
\* buffer at hand for RpcMessage::deserialize.
InitWith(s, cl, b) ==
    /\ stream = [c \in Conns |-> IF c = 1 THEN s ELSE Empty]
    /\ closed = [c \in Conns |-> c = 1 /\ cl]
    /\ rpos = [c \in Conns |-> 0]
    /\ rpc = [c \in Conns |-> "idle"]
    /\ rstart = [c \in Conns |-> 0]
    /\ head = [c \in Conns |-> NoHead]
    /\ data = [c \in Conns |-> Empty]
    /\ allocReq = [c \in Conns |-> 0]
    /\ passed = [c \in Conns |-> {}]
    /\ rres = [c \in Conns |-> None]
    /\ rlog = [c \in Conns |-> <<>>]
    /\ wpc = [c \in Conns |-> "idle"]
    /\ wdata = [c \in Conns |-> Empty]
    /\ wlen = [c \in Conns |-> <<0, 0, 0, 0>>]
    /\ wmsg = [c \in Conns |-> NoMsg]
    /\ wres = [c \in Conns |-> None]
    /\ wlog = [c \in Conns |-> <<>>]
    /\ wcount = [c \in Conns |-> 0]
    /\ dbuf = [c \in Conns |-> IF c = 1 THEN b ELSE Empty]
    /\ dmsg = [c \in Conns |-> NoMsg]
    /\ dres = [c \in Conns |-> None]

\* The stream is either an empty in-memory stream the program writes itself,
\* or what a peer sent before closing.
Init == \E s \in PeerStreams \cup {Empty} : InitWith(s, s # Empty, Empty)

\* ------------------------------------------------------------ read_packet

\* The call ends with the result r.
ReadEnds(c, r) ==
    /\ rres' = [rres EXCEPT ![c] = r]
    /\ rlog' = [rlog EXCEPT ![c] = Append(@, r)]
    /\ rpc' = [rpc EXCEPT ![c] = "idle"]

\* read_exact meets the end of the stream: what was there is consumed.
ReadEof(c) ==
    /\ stream' = [stream EXCEPT ![c] = Empty]
    /\ rpos' = [rpos EXCEPT ![c] = @ + BLen(stream[c])]

\* A read that copies n bytes out and leaves them on the stream.
ReadTakes_peek(c, n) ==
    /\ UNCHANGED stream
    /\ rpos' = [rpos EXCEPT ![c] = @ + n]

\* read_exact of n bytes succeeds.
ReadTakes(c, n) ==
    /\ stream' = [stream EXCEPT ![c] = BDrop(@, n)]
    /\ rpos' = [rpos EXCEPT ![c] = @ + n]

\* Lines 71-75: the call begins and read_exact fills the 5-byte head.  With
\* fewer than 5 bytes on an open stream the call waits.
read_packet_head(c) ==
    /\ rpc[c] = "idle"
    /\ Len(rlog[c]) < MaxReads
    /\ rstart' = [rstart EXCEPT ![c] = rpos[c]]
    /\ data' = [data EXCEPT ![c] = Empty]
    /\ allocReq' = [allocReq EXCEPT ![c] = 0]
    /\ dres' = [dres EXCEPT ![c] = None]
    /\ \/ /\ BLen(stream[c]) >= 5
          /\ ReadTakes(c, 5)
          /\ head' = [head EXCEPT ![c] =
                 [code |-> BAt(stream[c], 4),
                  len |-> from_be_bytes(First4(stream[c]))]]
          /\ rpc' = [rpc EXCEPT ![c] = "floor"]
          /\ rres' = [rres EXCEPT ![c] = None]
          /\ passed' = [passed EXCEPT ![c] = {"head"}]
          /\ UNCHANGED rlog
       \/ /\ BLen(stream[c]) < 5
          /\ closed[c]
          /\ ReadEof(c)
          /\ ReadEnds(c, FromIo("UnexpectedEof"))
          /\ passed' = [passed EXCEPT ![c] = {}]
          /\ UNCHANGED head
    /\ UNCHANGED <<closed, writeVars, dbuf, dmsg>>

\* The floor check with a floor of 1 in place of 4.
read_packet_floor_one(c) ==
    /\ rpc[c] = "floor"
    /\ IF U32Lt(head[c].len, 1)
       THEN /\ ReadEnds(c, FromIo("InvalidData"))
            /\ UNCHANGED passed
       ELSE /\ rpc' = [rpc EXCEPT ![c] = "ceil"]
            /\ passed' = [passed EXCEPT ![c] = @ \cup {"floor"}]
            /\ UNCHANGED <<rres, rlog>>
    /\ UNCHANGED <<streamVars, rstart, head, data, allocReq, writeVars, codecVars>>

\* The floor check without its early return: a short length is only noted.
read_packet_floor_noreturn(c) ==
    /\ rpc[c] = "floor"
    /\ rpc' = [rpc EXCEPT ![c] = "ceil"]
    /\ passed' = [passed EXCEPT ![c] =
           IF U32Lt(head[c].len, 4) THEN @ ELSE @ \cup {"floor"}]
    /\ UNCHANGED <<rres, rlog>>
    /\ UNCHANGED <<streamVars, rstart, head, data, allocReq, writeVars, codecVars>>

\* Lines 77-80: the length floor.
read_packet_floor(c) ==
    /\ rpc[c] = "floor"
    /\ IF U32Lt(head[c].len, 4)
       THEN /\ ReadEnds(c, FromIo("InvalidData"))
            /\ UNCHANGED passed
       ELSE /\ rpc' = [rpc EXCEPT ![c] = "ceil"]
            /\ passed' = [passed EXCEPT ![c] = @ \cup {"floor"}]
            /\ UNCHANGED <<rres, rlog>>
    /\ UNCHANGED <<streamVars, rstart, head, data, allocReq, writeVars, codecVars>>

\* The ceiling check refusing a length equal to the ceiling.
read_packet_ceil_strict(c) ==
    /\ rpc[c] = "ceil"
    /\ IF ~U32Lt(head[c].len, get_code_maxlen(head[c].code))
       THEN /\ ReadEnds(c, FromIo("InvalidData"))
            /\ UNCHANGED passed
       ELSE /\ rpc' = [rpc EXCEPT ![c] = "alloc"]
            /\ passed' = [passed EXCEPT ![c] = @ \cup {"ceil"}]
            /\ UNCHANGED <<rres, rlog>>
    /\ UNCHANGED <<streamVars, rstart, head, data, allocReq, writeVars, codecVars>>

\* Lines 82-87: the ceiling of the code.
read_packet_ceil(c) ==
    /\ rpc[c] = "ceil"
    /\ IF U32Gt(head[c].len, get_code_maxlen(head[c].code))
       THEN /\ ReadEnds(c, FromIo("InvalidData"))
            /\ UNCHANGED passed
       ELSE /\ rpc' = [rpc EXCEPT ![c] = "alloc"]
            /\ passed' = [passed EXCEPT ![c] = @ \cup {"ceil"}]
            /\ UNCHANGED <<rres, rlog>>
    /\ UNCHANGED <<streamVars, rstart, head, data, allocReq, writeVars, codecVars>>

\* data kept in one buffer all the streams share, in place of a Vec local to
\* the call.
read_packet_alloc_shared(c) ==
    /\ rpc[c] = "alloc"
    /\ LET buf_len == AsUsize(head[c].len) + 1
       IN  /\ allocReq' = [allocReq EXCEPT ![c] = buf_len]
           /\ \/ /\ data' = [d \in Conns |->
                        BCat(Rep(head[c].code, 1), Rep(0, buf_len - 1))]
                 /\ rpc' = [rpc EXCEPT ![c] = "body"]
                 /\ UNCHANGED <<rres, rlog>>
              \/ /\ ReadEnds(c, FromTryReserve)
                 /\ UNCHANGED data
    /\ UNCHANGED <<streamVars, rstart, head, passed, writeVars, codecVars>>

\* The buffer allocated infallibly (vec![0; n]): a refusal aborts.
read_packet_alloc_abort(c) ==
    /\ rpc[c] = "alloc"
    /\ LET buf_len == AsUsize(head[c].len) + 1
       IN  /\ allocReq' = [allocReq EXCEPT ![c] = buf_len]
           /\ \/ /\ data' = [data EXCEPT ![c] =
                        BCat(Rep(head[c].code, 1), Rep(0, buf_len - 1))]
                 /\ rpc' = [rpc EXCEPT ![c] = "body"]
                 /\ UNCHANGED <<rres, rlog>>
              \/ /\ ReadEnds(c, Panic)
                 /\ UNCHANGED data
    /\ UNCHANGED <<streamVars, rstart, head, passed, writeVars, codecVars>>

\* The buffer allocated without the byte for the code: buf_len bytes in all.
read_packet_alloc_nocode(c) ==
    /\ rpc[c] = "alloc"
    /\ LET buf_len == AsUsize(head[c].len)
       IN  /\ allocReq' = [allocReq EXCEPT ![c] = buf_len]
           /\ \/ /\ data' = [data EXCEPT ![c] =
                        BCat(Rep(head[c].code, 1), Rep(0, buf_len - 1))]
                 /\ rpc' = [rpc EXCEPT ![c] = "body"]
                 /\ UNCHANGED <<rres, rlog>>
              \/ /\ ReadEnds(c, FromTryReserve)
                 /\ UNCHANGED data
    /\ UNCHANGED <<streamVars, rstart, head, passed, writeVars, codecVars>>

\* Lines 91-96: buf_len + 1 bytes are asked of the allocator, which may
\* refuse; the buffer is zeroed and takes the code at index 0.
read_packet_alloc(c) ==
    /\ rpc[c] = "alloc"
    /\ LET buf_len == AsUsize(head[c].len) + 1
       IN  /\ allocReq' = [allocReq EXCEPT ![c] = buf_len]
           /\ \/ /\ data' = [data EXCEPT ![c] =
                        BCat(Rep(head[c].code, 1), Rep(0, buf_len - 1))]
                 /\ rpc' = [rpc EXCEPT ![c] = "body"]
                 /\ UNCHANGED <<rres, rlog>>
              \/ /\ ReadEnds(c, FromTryReserve)
                 /\ UNCHANGED data
    /\ UNCHANGED <<streamVars, rstart, head, passed, writeVars, codecVars>>

\* The body read with read in place of read_exact: at the end of the stream
\* the buffer is returned partly filled.
read_packet_body_partial(c) ==
    /\ rpc[c] = "body"
    /\ LET need == BLen(data[c]) - 1
       IN  \/ /\ BLen(stream[c]) >= need
              /\ ReadTakes(c, need)
              /\ data' = [data EXCEPT ![c] = BCat(BTake(@, 1), BTake(stream[c], need))]
              /\ ReadEnds(c, OkData(data'[c]))
           \/ /\ BLen(stream[c]) < need
              /\ closed[c]
              /\ ReadEof(c)
              /\ data' = [data EXCEPT ![c] =
                     BCat(BTake(@, 1),
                          BCat(stream[c], Rep(0, need - BLen(stream[c]))))]
              /\ ReadEnds(c, OkData(data'[c]))
    /\ UNCHANGED <<closed, rstart, head, allocReq, passed, writeVars, codecVars>>

\* Lines 97-99: read_exact fills data[1..].  With too few bytes on an open
\* stream the call waits.
read_packet_body(c) ==
    /\ rpc[c] = "body"
    /\ LET need == BLen(data[c]) - 1
       IN  \/ /\ BLen(stream[c]) >= need
              /\ ReadTakes(c, need)
              /\ data' = [data EXCEPT ![c] = BCat(BTake(@, 1), BTake(stream[c], need))]
              /\ ReadEnds(c, OkData(data'[c]))
           \/ /\ BLen(stream[c]) < need
              /\ closed[c]
              /\ ReadEof(c)
              /\ ReadEnds(c, FromIo("UnexpectedEof"))
              /\ UNCHANGED data
    /\ UNCHANGED <<closed, rstart, head, allocReq, passed, writeVars, codecVars>>

\* ----------------------------------------------------------- write_packet

\* write_packet writing data.len() as the length, the code byte counted.
write_packet_len_full(c, b, m) ==
    /\ wpc[c] = "idle"
    /\ wcount[c] < MaxWrites
    /\ wcount' = [wcount EXCEPT ![c] = @ + 1]
    /\ \/ /\ BLen(b) = 0
          /\ wres' = [wres EXCEPT ![c] = Panic]
          /\ UNCHANGED <<stream, wpc, wdata, wlen, wmsg>>
       \/ /\ closed[c]
          /\ wres' = [wres EXCEPT ![c] = FromIo("BrokenPipe")]
          /\ UNCHANGED <<stream, wpc, wdata, wlen, wmsg>>
       \/ /\ ~closed[c]
          /\ LET buf_len == IF BLen(b) = 0 THEN <<255, 255, 255, 255>>
                            ELSE to_be_bytes(BLen(b))
             IN  /\ stream' = [stream EXCEPT ![c] = BCat(@, Bytes(buf_len))]
                 /\ wlen' = [wlen EXCEPT ![c] = buf_len]
          /\ wpc' = [wpc EXCEPT ![c] = "body"]
          /\ wdata' = [wdata EXCEPT ![c] = b]
          /\ wmsg' = [wmsg EXCEPT ![c] = m]
          /\ wres' = [wres EXCEPT ![c] = None]
    /\ UNCHANGED <<closed, rpos, readVars, wlog, codecVars>>

\* Lines 103-105 for the argument b (serialized from m by async_write, or
\* NoMsg): the length is computed and its four bytes are written.  On an
\* empty b, data.len() - 1 panics in a build with overflow checks and wraps
\* to usize::MAX, cast to 0xffffffff, in a build without.  write_all on a
\* closed stream is an IO error.
write_packet_len(c, b, m) ==
    /\ wpc[c] = "idle"
    /\ wcount[c] < MaxWrites
    /\ wcount' = [wcount EXCEPT ![c] = @ + 1]
    /\ \/ /\ BLen(b) = 0
          /\ wres' = [wres EXCEPT ![c] = Panic]
          /\ UNCHANGED <<stream, wpc, wdata, wlen, wmsg>>
       \/ /\ closed[c]
          /\ wres' = [wres EXCEPT ![c] = FromIo("BrokenPipe")]
          /\ UNCHANGED <<stream, wpc, wdata, wlen, wmsg>>
       \/ /\ ~closed[c]
          /\ LET buf_len == IF BLen(b) = 0 THEN <<255, 255, 255, 255>>
                            ELSE to_be_bytes(BLen(b) - 1)
             IN  /\ stream' = [stream EXCEPT ![c] = BCat(@, Bytes(buf_len))]
                 /\ wlen' = [wlen EXCEPT ![c] = buf_len]
          /\ wpc' = [wpc EXCEPT ![c] = "body"]
          /\ wdata' = [wdata EXCEPT ![c] = b]
          /\ wmsg' = [wmsg EXCEPT ![c] = m]
          /\ wres' = [wres EXCEPT ![c] = None]
    /\ UNCHANGED <<closed, rpos, readVars, wlog, codecVars>>

\* Lines 106-107: data is written whole, and the call returns Ok(()).
write_packet_body(c) ==
    /\ wpc[c] = "body"
    /\ stream' = [stream EXCEPT ![c] = BCat(@, wdata[c])]
    /\ wpc' = [wpc EXCEPT ![c] = "idle"]
    /\ wres' = [wres EXCEPT ![c] = OkUnit]
    /\ wlog' = [wlog EXCEPT ![c] =
           Append(@, [buf |-> wdata[c], len |-> wlen[c], msg |-> wmsg[c]])]
    /\ UNCHANGED <<closed, rpos, readVars, wdata, wlen, wmsg, wcount, codecVars>>

\* write_packet called with a buffer.
write_packet(c) == \E b \in Buffers : write_packet_len(c, b, NoMsg)

\* write_packet called with a buffer, where two streams are in use.
write_packet_pair(c) == \E b \in PairBuffers : write_packet_len(c, b, NoMsg)

\* RpcMessage::async_write: the message is serialized into output, which
\* goes to write_packet.
async_write(c) == \E m \in Messages : write_packet_len(c, Serialize(m), m)

\* The writing end of the stream is closed between two writes.
close_stream(c) ==
    /\ ~closed[c]
    /\ wpc[c] = "idle"
    /\ closed' = [closed EXCEPT ![c] = TRUE]
    /\ UNCHANGED <<stream, rpos, readVars, writeVars, codecVars>>

\* ------------------------------------------------- RpcMessage::deserialize

\* The buffer read_packet returned is handed to RpcMessage::deserialize.
deserialize_packet(c) ==
    /\ rpc[c] = "idle"
    /\ rres[c].tag = "Ok"
    /\ dres[c].tag = "None"
    /\ dbuf' = [dbuf EXCEPT ![c] = rres[c].val]
    /\ dres' = [dres EXCEPT ![c] = deserialize(rres[c].val)]
    /\ UNCHANGED <<streamVars, readVars, writeVars, dmsg>>

\* A message is serialized (ser::to_writer into output).
serialize_msg(c) ==
    /\ dmsg[c] = NoMsg
    /\ dbuf[c] = Empty
    /\ dres[c].tag = "None"
    /\ \E m \in CodecMessages :
          /\ dmsg' = [dmsg EXCEPT ![c] = m]
          /\ dbuf' = [dbuf EXCEPT ![c] = Serialize(m)]
    /\ UNCHANGED <<streamVars, readVars, writeVars, dres>>

\* RpcMessage::deserialize applied to the buffer at hand.
deserialize_buf(c) ==
    /\ dres[c].tag = "None"
    /\ dres' = [dres EXCEPT ![c] = deserialize(dbuf[c])]
    /\ UNCHANGED <<streamVars, readVars, writeVars, dbuf, dmsg>>

\* ------------------------------------------------------ the specifications

\* The streams in use.
Active == {1}

\* One stream, written by write_packet / async_write or by a peer, read by
\* read_packet, each returned buffer decoded.
Next ==
    \E c \in Active :
        \/ read_packet_head(c)
        \/ read_packet_floor(c)
        \/ read_packet_ceil(c)
        \/ read_packet_alloc(c)
        \/ read_packet_body(c)
        \/ write_packet(c)
        \/ async_write(c)
        \/ write_packet_body(c)
        \/ close_stream(c)
        \/ deserialize_packet(c)

Spec == Init /\ [][Next]_vars

\* Two streams, each written by write_packet and read by read_packet, the
\* steps of the calls on one interleaved with the steps of the calls on the
\* other in every order.
InitPair == InitWith(Empty, FALSE, Empty)

NextPair ==
    \E c \in Conns :
        \/ read_packet_head(c)
        \/ read_packet_floor(c)
        \/ read_packet_ceil(c)
        \/ read_packet_alloc(c)
        \/ read_packet_body(c)
        \/ write_packet_pair(c)
        \/ write_packet_body(c)

SpecPair == InitPair /\ [][NextPair]_vars

\* The envelope alone: a buffer, given or serialized from a message, is
\* decoded.
InitCodec == \E b \in DecodeInputs : InitWith(Empty, FALSE, b)

NextCodec == \E c \in Active : serialize_msg(c) \/ deserialize_buf(c)

SpecCodec == InitCodec /\ [][NextCodec]_vars

\* ============================================================== the claims

\* The size policy table of the specification (section 3).
PolicyCeiling(d) ==
    IF d = 14 THEN 52428800 ELSE IF d = 16 THEN 209715200 ELSE 51200

\* The kind of an error: the std::io::ErrorKind of an IOError, else the
\* variant of Error itself.
ErrKind(r) == IF r.err = "IOError" THEN r.kind ELSE r.err
IsInvalidData(r) == r.tag = "Err" /\ ErrKind(r) = "InvalidData"
IsEof(r) == r.tag = "Err" /\ ErrKind(r) = "UnexpectedEof"

\* The first write on stream c has completed and the first read_packet call
\* on it has ended.  A stream that was written to began empty and open, so
\* the first buffer written is the first thing the first call reads.
FirstFrameRead(c) == Len(wlog[c]) >= 1 /\ Len(rlog[c]) >= 1

\* A buffer read_packet accepts: a code byte and a payload of at least 4 bytes
\* and at most the ceiling of the code.
InRange(b) == BLen(b) >= 5 /\ BLen(b) - 1 <= PolicyCeiling(BAt(b, 0))

\* C1 as stated: for every buffer b of at least one byte, write_packet of b
\* on an empty stream followed by read_packet returns b.
C1_FrameRoundTrip_AnyLength ==
    \A c \in Conns :
        (FirstFrameRead(c) /\ BLen(wlog[c][1].buf) >= 1)
            => rlog[c][1] = OkData(wlog[c][1].buf)

\* C1 (amended): for every buffer b of 5 bytes or more whose payload
\* (b.length - 1 bytes) is within the ceiling of its code byte, write_packet
\* of b on an empty stream followed by read_packet returns a buffer equal to
\* b byte for byte, unless the allocation of that buffer fails (OutOfMemory).
C1_FrameRoundTrip ==
    \A c \in Conns :
        (FirstFrameRead(c) /\ InRange(wlog[c][1].buf))
            => \/ rlog[c][1] = OkData(wlog[c][1].buf)
               \/ rlog[c][1] = FromTryReserve

C1_Witness ==
    \E c \in Conns :
        /\ FirstFrameRead(c)
        /\ InRange(wlog[c][1].buf)
        /\ wlog[c][1].msg = NoMsg
        /\ rlog[c][1] = OkData(wlog[c][1].buf)

\* C2 as stated: read_packet never asks the allocator for more than the
\* ceiling of the code.
C2_AllocBound_Ceiling ==
    \A c \in Conns : allocReq[c] <= PolicyCeiling(head[c].code)

\* C2 (amended): for every code and every declared length, read_packet never
\* asks the allocator for more than the ceiling of the code plus one byte
\* (the byte that holds the code).
C2_AllocBound ==
    \A c \in Conns : allocReq[c] <= PolicyCeiling(head[c].code) + 1

C2_Witness ==
    \E c \in Conns :
        /\ allocReq[c] = PolicyCeiling(head[c].code) + 1
        /\ rres[c].tag = "Ok"

\* The read_packet call on stream c has read a header and has ended.
HeaderCallEnded(c) == rpc[c] = "idle" /\ "head" \in passed[c]

\* C3: when the header declares a payload length below 4, whatever the code,
\* read_packet fails with the error kind InvalidData and the stream stands
\* exactly 5 bytes past where the call began.
C3_LengthFloor ==
    \A c \in Conns :
        (HeaderCallEnded(c) /\ head[c].len.hi = 0 /\ head[c].len.lo < 4)
            => /\ IsInvalidData(rres[c])
               /\ rpos[c] = rstart[c] + 5

C3_Witness ==
    \E c \in Conns :
        /\ HeaderCallEnded(c)
        /\ head[c].len.hi = 0 /\ head[c].len.lo = 3
        /\ BLen(stream[c]) > 0
        /\ IsInvalidData(rres[c])

\* The length the header of the call on stream c declares, against a number
\* below 2^31.
DeclaredBelow(c, n) == head[c].len.hi = 0 /\ head[c].len.lo < n
DeclaredAbove(c, n) ==
    head[c].len.hi >= 32768 \/ head[c].len.hi * 65536 + head[c].len.lo > n
Declared(c) == head[c].len.hi * 65536 + head[c].len.lo

\* C4: for every code d and declared length L >= 4, read_packet rejects the
\* frame with InvalidData when L > ceiling(d), and accepts it when
\* L <= ceiling(d): it is then never InvalidData, and it returns the buffer of
\* L + 1 bytes whenever the stream supplies L bytes and the allocation
\* succeeds.  ceiling(0x0e) = 50 MiB, ceiling(0x10) = 200 MiB, 50 KiB else.
C4_SizeCeiling ==
    \A c \in Conns :
        (HeaderCallEnded(c) /\ ~DeclaredBelow(c, 4))
            => IF DeclaredAbove(c, PolicyCeiling(head[c].code))
               THEN IsInvalidData(rres[c])
               ELSE \/ /\ rres[c].tag = "Ok"
                       /\ BLen(rres[c].val) = Declared(c) + 1
                    \/ rres[c] = FromTryReserve
                    \/ /\ IsEof(rres[c])
                       /\ rpos[c] - rstart[c] - 5 < Declared(c)

C4_Witness ==
    \E c \in Conns :
        /\ HeaderCallEnded(c)
        /\ head[c].code = 14
        /\ head[c].len = [hi |-> 800, lo |-> 0]
        /\ rres[c].tag = "Ok"

\* The codes of the eight variants (specification, section 3).
KnownCodes == 10..17

\* C5: a frame whose code is none of 0x0a..0x11 never yields a message: read_packet
\* rejects it with the error kind InvalidData when its declared length is
\* below 4 or above the ceiling, and otherwise, the frame being complete and
\* the buffer allocated, RpcMessage::deserialize rejects the returned buffer
\* with InvalidData.
C5_UnknownDiscriminant ==
    \A c \in Conns :
        (HeaderCallEnded(c) /\ head[c].code \notin KnownCodes)
            => /\ dres[c].tag \in {"None", "Err"}
               /\ (DeclaredBelow(c, 4) \/ DeclaredAbove(c, PolicyCeiling(head[c].code)))
                     => IsInvalidData(rres[c])
               /\ rres[c].tag = "Ok"
                     => (dres[c].tag = "None" \/ dres[c] = Err("InvalidData"))
               /\ rres[c].tag = "Err"
                     => \/ IsInvalidData(rres[c])
                        \/ rres[c] = FromTryReserve
                        \/ /\ IsEof(rres[c])
                           /\ rpos[c] - rstart[c] - 5 < Declared(c)

C5_Witness ==
    \E c \in Conns :
        /\ HeaderCallEnded(c)
        /\ head[c].code = 255
        /\ rres[c].tag = "Ok"
        /\ dres[c] = Err("InvalidData")

\* C6: in every step of read_packet that asks the allocator for the buffer,
\* and in every step that reads body bytes, the floor check and the ceiling
\* check of that call have both passed before; and a call that ends on a
\* failed check has asked for no buffer and has read nothing beyond the 5
\* header bytes.
C6_CheckBeforeAllocate ==
    [][\A c \in Conns :
          /\ (allocReq'[c] > 0 /\ allocReq'[c] # allocReq[c])
                => /\ {"floor", "ceil"} \subseteq passed[c]
                   /\ ~DeclaredBelow(c, 4)
                   /\ ~DeclaredAbove(c, PolicyCeiling(head[c].code))
          /\ (rpc[c] # "idle" /\ rpos'[c] > rpos[c])
                => /\ {"floor", "ceil"} \subseteq passed[c]
                   /\ allocReq[c] > 0
          /\ (rpc[c] # "idle" /\ rpc'[c] = "idle"
                /\ (DeclaredBelow(c, 4)
                      \/ DeclaredAbove(c, PolicyCeiling(head[c].code))))
                => /\ allocReq'[c] = 0
                   /\ data'[c] = Empty
                   /\ rpos'[c] = rstart[c] + 5]_vars

C6_Witness ==
    \E c \in Conns :
        /\ rpc[c] = "body"
        /\ allocReq[c] > 0
        /\ passed[c] = {"head", "floor", "ceil"}

\* C7: every frame async_write puts on the stream declares a payload length
\* of at least 4 in its header, so that read_packet does not reject a written
\* message for being too short.
C7_WrittenLengthFloor ==
    \A c \in Conns :
        /\ \A i \in 1..Len(wlog[c]) :
              wlog[c][i].msg # NoMsg
                  => LET a == from_be_bytes(wlog[c][i].len)
                     IN  ~(a.hi = 0 /\ a.lo < 4)
        /\ (FirstFrameRead(c) /\ wlog[c][1].msg # NoMsg
              /\ BLen(wlog[c][1].buf) - 1 <= PolicyCeiling(BAt(wlog[c][1].buf, 0)))
              => ~IsInvalidData(rlog[c][1])

\* C8: get_code is injective on the variants with image exactly 0x0a..0x11;
\* RpcMessage::deserialize is its inverse: a buffer whose first byte is the
\* code of a variant and whose payload decodes yields that variant (and the
\* variant of the message it was serialized from), and a buffer whose first
\* byte is any other value yields the error InvalidData.
C8_Bijection ==
    /\ \A v, w \in Variants :
          get_code(Msg(v, Empty)) = get_code(Msg(w, Empty)) => v = w
    /\ {get_code(Msg(v, Empty)) : v \in Variants} = KnownCodes
    /\ \A c \in Conns :
          (dres[c].tag # "None" /\ dbuf[c] # Empty)
              => IF BAt(dbuf[c], 0) \in KnownCodes
                 THEN /\ dres[c].tag \in {"Ok", "Err"}
                      /\ dres[c].tag = "Ok"
                            => get_code(dres[c].msg) = BAt(dbuf[c], 0)
                      /\ dres[c].tag = "Err" => dres[c] = Err("Serde")
                      /\ (BAt(dbuf[c], 0) = 10 \/ DecodeRecord(BDrop(dbuf[c], 1)).ok)
                            => dres[c].tag = "Ok"
                      /\ dmsg[c] # NoMsg
                            => /\ dres[c].tag = "Ok"
                               /\ dres[c].msg.variant = dmsg[c].variant
                 ELSE dres[c] = Err("InvalidData")

C8_Witness ==
    \E c \in Conns :
        /\ dmsg[c] # NoMsg
        /\ dmsg[c].variant = "PullMetadataResult"
        /\ BAt(dbuf[c], 0) = 15
        /\ dres[c].tag = "Ok"
        /\ dres[c].msg.variant = "PullMetadataResult"

\* C9: no decode or frame function aborts: RpcMessage::deserialize and
\* write_packet end with a success value or an Error value, never with a
\* panic, for every buffer, the empty one included.
C9_NoAbort ==
    \A c \in Conns : dres[c].tag # "Panic" /\ wres[c].tag # "Panic"

\* C10: a message of any variant written by async_write to an empty stream,
\* read back by read_packet (its buffer allocated) and decoded by
\* RpcMessage::deserialize, yields a message of the same variant with an
\* equal payload.
C10_EndToEnd ==
    \A c \in Conns :
        (/\ FirstFrameRead(c)
         /\ wlog[c][1].msg # NoMsg
         /\ Len(rlog[c]) = 1 /\ rpc[c] = "idle"
         /\ rlog[c][1] # FromTryReserve)
            => /\ rres[c].tag = "Ok"
               /\ dres[c].tag # "None" => dres[c] = OkMsg(wlog[c][1].msg)

\* The bytes a step appended to stream c.
Appended(c) == BDrop(stream'[c], BLen(stream[c]))

\* C11: for every buffer of one byte or more (a code byte followed by a
\* payload), write_packet appends to the stream exactly 4 bytes, the
\* big-endian encoding of buffer.length - 1, and then all the bytes of the
\* buffer unchanged, the length before the buffer, and nothing else; what the
\* stream held before stays as it was.
C11_WriteFormat ==
    [][\A c \in Conns :
           /\ (wpc[c] = "idle" /\ wpc'[c] = "body" /\ BLen(wdata'[c]) >= 1)
                 => LET n == BLen(wdata'[c]) - 1
                        q == First4(Appended(c))
                    IN  /\ BTake(stream'[c], BLen(stream[c])) = stream[c]
                        /\ BLen(Appended(c)) = 4
                        /\ q[1] * 256 + q[2] = n \div 65536
                        /\ q[3] * 256 + q[4] = n % 65536
           /\ (wpc[c] = "body" /\ wpc'[c] = "idle" /\ BLen(wdata[c]) >= 1)
                 => /\ BTake(stream'[c], BLen(stream[c])) = stream[c]
                    /\ Appended(c) = wdata[c]
                    /\ wres'[c] = OkUnit]_vars

C11_Witness ==
    \E c \in Conns :
        /\ Len(wlog[c]) = 1 /\ rlog[c] = <<>> /\ wpc[c] = "idle"
        /\ BLen(wlog[c][1].buf) = 1024 * 50 + 1
        /\ stream[c] = BCat(Bytes(<<0, 0, 200, 0>>), wlog[c][1].buf)
        /\ wres[c] = OkUnit

\* C12: a buffer whose first byte is 0x0a decodes to Ok whatever bytes follow
\* it; and for each of the seven other variants, a buffer whose payload
\* decode ends with bytes left over still decodes to the message of that
\* variant with the decoded record, never to an error.
C12_TolerantDecode ==
    \A c \in Conns :
        (dres[c].tag # "None" /\ BLen(dbuf[c]) >= 1)
            => LET code == BAt(dbuf[c], 0)
                   rest == BDrop(dbuf[c], 1)
                   d == DecodeRecord(rest)
               IN  /\ code = 10 => dres[c] = OkMsg(Msg("Ok", Empty))
                   /\ (code \in 11..17 /\ d.ok /\ d.used < BLen(rest))
                         => /\ dres[c].tag = "Ok"
                            /\ get_code(dres[c].msg) = code
                            /\ dres[c].msg.rec = d.rec

C12_Witness ==
    \E c \in Conns :
        /\ dbuf[c] = Bytes(<<13, 0, 0, 0, 2, 7, 3, 0, 255>>)
        /\ dres[c] = OkMsg(Msg("Hello", Bytes(<<7, 3>>)))

\* C13: for every message m, of each of the eight variants and with each
\* payload record, decoding the buffer that serializing m produced yields m.
C13_MessageRoundTrip ==
    \A c \in Conns :
        (dmsg[c] # NoMsg /\ dres[c].tag # "None") => dres[c] = OkMsg(dmsg[c])

C13_Witness ==
    \E c \in Conns :
        /\ dmsg[c] = Msg("PushMetadata", Bytes(<<0, 0, 0, 1>>))
        /\ dbuf[c] = Bytes(<<16, 0, 0, 0, 4, 0, 0, 0, 1>>)
        /\ dres[c] = OkMsg(dmsg[c])

\* C14: when buffers b1..bn, each one read_packet accepts, are written to an
\* empty stream by n write_packet calls in that order, the read_packet calls
\* on the stream return b1, b2, ... in that order, none reordered, merged,
\* split or repeated: the i-th call returns bi as long as the calls before it
\* returned buffers, unless the allocation of its buffer fails.
C14_FrameOrdering ==
    \A c \in Conns :
        \A i \in 1..Len(rlog[c]) :
            (/\ i <= Len(wlog[c])
             /\ \A j \in 1..i : InRange(wlog[c][j].buf)
             /\ \A j \in 1..(i - 1) : rlog[c][j].tag = "Ok")
                => \/ rlog[c][i] = OkData(wlog[c][i].buf)
                   \/ rlog[c][i] = FromTryReserve

C14_Witness ==
    \E c \in Conns :
        /\ Len(wlog[c]) = 2 /\ Len(rlog[c]) = 2
        /\ InRange(wlog[c][1].buf) /\ InRange(wlog[c][2].buf)
        /\ BLen(wlog[c][1].buf) > BLen(wlog[c][2].buf)
        /\ rlog[c][1] = OkData(wlog[c][1].buf)
        /\ rlog[c][2] = OkData(wlog[c][2].buf)

\* C15: a read_packet call that returns a buffer for a header declaring L
\* consumes exactly 5 + L bytes of the stream, the 5 header bytes and the L
\* bytes after them, and leaves every later byte on the stream unread and
\* unchanged; the buffer has L + 1 bytes, the code byte of the header at
\* index 0 and the L bytes that followed the header at indices 1..L.
C15_StreamConsumption ==
    [][\A c \in Conns :
           /\ (rpc[c] = "idle" /\ rpc'[c] = "floor")
                 => LET q == First4(stream[c])
                    IN  /\ rstart'[c] = rpos[c]
                        /\ rpos'[c] = rpos[c] + 5
                        /\ stream'[c] = BDrop(stream[c], 5)
                        /\ head'[c].len.hi = q[1] * 256 + q[2]
                        /\ head'[c].len.lo = q[3] * 256 + q[4]
                        /\ head'[c].code = BAt(stream[c], 4)
           /\ rpc[c] \in {"floor", "ceil", "alloc"}
                 => /\ rpos'[c] = rpos[c]
                    /\ head'[c] = head[c]
                    /\ BTake(stream'[c], BLen(stream[c])) = stream[c]
           /\ (rpc[c] = "body" /\ rpc'[c] = "idle" /\ rres'[c].tag = "Ok")
                 => LET L == Declared(c)
                    IN  /\ rpos[c] = rstart[c] + 5
                        /\ rpos'[c] = rstart[c] + 5 + L
                        /\ stream'[c] = BDrop(stream[c], L)
                        /\ BLen(rres'[c].val) = L + 1
                        /\ BAt(rres'[c].val, 0) = head[c].code
                        /\ BDrop(rres'[c].val, 1) = BTake(stream[c], L)]_vars

C15_Witness ==
    \E c \in Conns :
        /\ HeaderCallEnded(c)
        /\ rres[c] = OkData(BCat(Rep(17, 1), Rep(7, 1024 * 50)))
        /\ rpos[c] = rstart[c] + 5 + 1024 * 50
        /\ stream[c] = Bytes(<<1, 2>>)

\* The read_packet call on stream c has ended.
CallEnded(c) == rpc[c] = "idle" /\ rres[c].tag # "None"

\* C16: when the stream ends after fewer than 5 bytes of a header, or after a
\* header that passes the checks but before the L bytes it declares,
\* read_packet returns the end-of-stream error of the transport
\* (IOError of kind UnexpectedEof) and never a buffer; in the second case the
\* call may instead end with OutOfMemory when the allocation fails.
C16_ShortRead ==
    \A c \in Conns :
        (CallEnded(c) /\ closed[c])
            => /\ (rpos[c] - rstart[c]) + BLen(stream[c]) < 5
                     => rres[c] = [tag |-> "Err", err |-> "IOError",
                                   kind |-> "UnexpectedEof", val |-> Empty,
                                   msg |-> NoMsg]
               /\ (/\ "head" \in passed[c]
                   /\ ~DeclaredBelow(c, 4)
                   /\ ~DeclaredAbove(c, PolicyCeiling(head[c].code))
                   /\ (rpos[c] - rstart[c] - 5) + BLen(stream[c]) < Declared(c))
                     => /\ rres[c].tag = "Err"
                        /\ \/ rres[c].err = "IOError" /\ rres[c].kind = "UnexpectedEof"
                           \/ rres[c].err = "OutOfMemory"

C16_Witness ==
    \E c \in Conns :
        /\ CallEnded(c) /\ closed[c]
        /\ "head" \in passed[c]
        /\ head[c].code = 16
        /\ head[c].len = [hi |-> 3200, lo |-> 0]
        /\ rpos[c] = rstart[c] + 5 + Declared(c) - 1
        /\ stream[c] = Empty
        /\ IsEof(rres[c])

\* C17: when the allocation of the L + 1 byte buffer fails, which ends the
\* call at the allocation, read_packet returns OutOfMemory, neither panicking
\* nor aborting, and has consumed the 5 header bytes only: no byte of the
\* body is taken from the stream.
C17_AllocationFailure ==
    [][\A c \in Conns :
           (rpc[c] = "alloc" /\ rpc'[c] = "idle")
              => /\ rres'[c].tag = "Err"
                 /\ rres'[c].err = "OutOfMemory"
                 /\ rlog'[c] = Append(rlog[c], rres'[c])
                 /\ rpos'[c] = rstart[c] + 5
                 /\ stream'[c] = stream[c]]_vars

C17_Witness ==
    \E c \in Conns :
        /\ HeaderCallEnded(c)
        /\ rres[c].err = "OutOfMemory"
        /\ head[c].code = 14
        /\ allocReq[c] = 50 * 1024 * 1024 + 1
        /\ rpos[c] = rstart[c] + 5
        /\ stream[c] = Rep(7, 50 * 1024 * 1024)

\* All that belongs to stream c and to the calls on it.
ConnState(c) ==
    <<stream[c], closed[c], rpos[c], rpc[c], rstart[c], head[c], data[c],
      allocReq[c], passed[c], rres[c], rlog[c], wpc[c], wdata[c], wlen[c],
      wmsg[c], wres[c], wlog[c], wcount[c], dbuf[c], dmsg[c], dres[c]>>

\* Every byte the writes on stream c have put on it, in order: for each
\* completed write its length bytes and its buffer, then the length bytes of
\* a write under way.
RECURSIVE WireOfLog(_)
WireOfLog(l) ==
    IF l = <<>> THEN Empty
    ELSE BCat(WireOfLog(SubSeq(l, 1, Len(l) - 1)),
              BCat(Bytes(l[Len(l)].len), l[Len(l)].buf))

WireOf(c) ==
    BCat(WireOfLog(wlog[c]), IF wpc[c] = "body" THEN Bytes(wlen[c]) ELSE Empty)

\* The header found at position p of the bytes w.
HeaderAt(w, p) ==
    LET q == First4(BDrop(w, p))
    IN  [hi |-> q[1] * 256 + q[2], lo |-> q[3] * 256 + q[4], code |-> BAt(w, p + 4)]

\* read_packet calls made alone, one after the other, on the bytes w from
\* position p on: the position at which they end when their results are rl,
\* and -1 when rl is not what such calls return.
RECURSIVE AloneEnd(_, _, _)
AloneEnd(w, p, rl) ==
    IF rl = <<>> THEN p
    ELSE IF BLen(w) - p < 5 THEN -1
    ELSE LET h == HeaderAt(w, p)
             r == Head(rl)
             L == h.hi * 65536 + h.lo
         IN  IF h.hi >= 32768 \/ L < 4 \/ L > PolicyCeiling(h.code)
             THEN IF r.tag = "Err" /\ r.err = "IOError" /\ r.kind = "InvalidData"
                  THEN AloneEnd(w, p + 5, Tail(rl)) ELSE -1
             ELSE IF r.tag = "Err" /\ r.err = "OutOfMemory"
                  THEN AloneEnd(w, p + 5, Tail(rl))
             ELSE IF /\ BLen(w) - p - 5 >= L
                     /\ r.tag = "Ok"
                     /\ r.val = BCat(Rep(h.code, 1), BTake(BDrop(w, p + 5), L))
                  THEN AloneEnd(w, p + 5 + L, Tail(rl)) ELSE -1

\* C18: with two streams in use and the steps of the calls on one (header
\* read, checks, allocation, body read, length write, body write) interleaved
\* in any order with the steps of the calls on the other, no step changes
\* anything of the other stream or of the calls on it, and on each stream the
\* results of the read_packet calls and the bytes left on the stream are those
\* of the same calls made alone on the bytes written to that stream.
C18_ConnectionIndependence ==
    /\ [](\A c \in Conns :
              LET w == WireOf(c)
                  e == AloneEnd(w, 0, rlog[c])
              IN  /\ e >= 0
                  /\ stream[c] = BDrop(w, rpos[c])
                  /\ rpc[c] = "idle" => rpos[c] = e)
    /\ [][\E c \in Conns : \A d \in Conns \ {c} : ConnState(d)' = ConnState(d)]_vars

C18_Witness ==
    \E c \in Conns, d \in Conns :
        /\ c # d
        /\ rpc[c] = "floor" /\ wpc[c] = "body"
        /\ rlog[c] = <<FromIo("InvalidData")>>
        /\ rlog[d] = <<OkData(BCat(Rep(14, 1), Rep(7, 1024 * 50 + 1))), FromTryReserve>>
        /\ stream[d] = Rep(7, 1024 * 50 + 1)

\* C19: every buffer read_packet returns has 5 bytes or more (the code byte
\* and a payload of at least 4), so RpcMessage::deserialize applied to a
\* buffer read_packet returned never indexes out of bounds: it ends with a
\* message or an error, not a panic.
C19_ReturnedBufferLength ==
    \A c \in Conns :
        /\ \A i \in 1..Len(rlog[c]) :
               rlog[c][i].tag = "Ok" => BLen(rlog[c][i].val) >= 5
        /\ (rres[c].tag = "Ok" /\ dres[c].tag # "None")
               => /\ dbuf[c] = rres[c].val
                  /\ dres[c].tag \in {"Ok", "Err"}

C19_Witness ==
    \E c \in Conns :
        /\ rres[c].tag = "Ok"
        /\ BLen(rres[c].val) = 5
        /\ dbuf[c] = rres[c].val
        /\ dres[c].tag = "Err"

====
